---- MODULE Spec2Model ----
(***************************************************************************)
(* A model of the energy-storage-report tools:                             *)
(*   - esr/simple.py  : extract_caiso_charts_with_titles (page script,     *)
(*                      title matching, point serialisation),              *)
(*                      convert_to_dataframes, read_single_day_data and    *)
(*                      the date loop            (specification Spec)      *)
(*   - esr/collate.py : EsrCollater.collate     (specification SpecCollate)*)
(*                      and the column expression of EsrCollater.format_*  *)
(*                      on one series name       (specification SpecFormat)*)
(*   - esr/__init__.py: scrape_caiso_storage_report: load_report_page,     *)
(*                      extract_chart_data and close                       *)
(*                                               (specification SpecScraper)*)
(*   - a run of either extractor, for the browser sessions and the chart   *)
(*     titles of both                          (specification SpecSessions)*)
(*                                                                         *)
(* Numbers that do not fit 32 bits (millisecond epochs) are pairs          *)
(* <<hi, lo>> standing for hi * 10^9 + lo, compared lexicographically.     *)
(***************************************************************************)
EXTENDS Integers, Sequences, FiniteSets, TLC

VARIABLES
    \* ---- esr/simple.py ----
    day,          \* 1-based position in the date range of the __main__ loop
    pc,           \* where read_single_day_data stands
    page,         \* the document the driver has loaded for this day
    driver,       \* "none" | "open" | "quit": the webdriver.Chrome session
    exc,          \* the exception that left the loop ("" while none)
    extracted,    \* extracted_data returned by driver.execute_script
    dataframes,   \* the dict convert_to_dataframes returned
    written,      \* the csv files read_single_day_data wrote for this day
    \* ---- esr/collate.py ----
    cpc,          \* where EsrCollater.collate stands
    directory,    \* the files root.iterdir() can yield: name -> csv rows
    call,         \* the (dtype, btype) of the collate call in progress
    listing,      \* the order in which root.iterdir() yielded the names
    io,           \* the directory listings and file reads performed so far
    outcome,      \* what the last collate call gave back
    previous,     \* what the collate call before it gave back
    \* ---- esr/__init__.py ----
    spc,          \* where extract_chart_data stands
    site,         \* what each strategy finds on the loaded page
    failing,      \* the strategies whose evaluation raises on this page
    extracted_js, \* extract_js_data's extracted_data dict
    chart_data,   \* extract_chart_library_data's chart_data dict
    data_sources, \* extract_chart_data's data_sources dict
    caught,       \* the strategies whose exception a handler has caught
    env,          \* what Chrome and the site do when the report is loaded
    self_driver,  \* "none" | "open" | "quit": the scraper's self.driver
    \* ---- esr/collate.py: one value of the series_name column ----
    fpc,          \* where the formatter's column expression stands
    fdtype,       \* the dtype whose formatter runs
    raw,          \* the series_name text scan_csv read
    column,       \* the value of the series_name expression so far
    casted        \* the result of the cast to the enumeration

simpleVars  == <<day, pc, page, driver, exc, extracted, dataframes, written>>
collateVars == <<cpc, directory, call, listing, io, outcome, previous>>
scraperVars ==
    <<spc, site, failing, extracted_js, chart_data, data_sources, caught, env,
      self_driver>>
formatVars == <<fpc, fdtype, raw, column, casted>>
vars == <<simpleVars, collateVars, scraperVars, formatVars>>

(***************************************************************************)
(* Bounds of the model.                                                    *)
(***************************************************************************)
MaxTitles == 2      \* title candidates on one page
MaxCharts == 2      \* entries of Highcharts.charts on one page
MaxPoints == 2      \* points of one series
MaxDays   == 2      \* days of the date range

(***************************************************************************)
(* Generic helpers.                                                        *)
(***************************************************************************)
Min(a, b) == IF a <= b THEN a ELSE b
Max(a, b) == IF a >= b THEN a ELSE b

\* sequences over S of length at most n
BSeqs(S, n) == UNION {[1..k -> S] : k \in 0..n}

\* sequences over S of length at most n without a repeated element
InjSeqs(S, n) ==
    {s \in BSeqs(S, n) : \A i, j \in DOMAIN s : i # j => s[i] # s[j]}

\* s without its i-th element
RemoveAt(s, i) == [k \in 1..(Len(s) - 1) |-> IF k < i THEN s[k] ELSE s[k + 1]]

\* a > b for numbers written <<hi, lo>>
BigGreater(a, b) == a[1] > b[1] \/ (a[1] = b[1] /\ a[2] > b[2])

RECURSIVE Flatten(_)
Flatten(seqs) ==
    IF seqs = <<>> THEN <<>> ELSE Head(seqs) \o Flatten(Tail(seqs))

(***************************************************************************)
(* esr/simple.py: the page-side extraction script.                         *)
(***************************************************************************)

\* distance < 200 (simple.py:81)
TitleGapLimit == 200

\* point.x > 1000000000000 (simple.py:106): 1000 * 10^9 + 0
EpochThreshold == <<1000, 0>>

\* new Date(x).toISOString() throws a RangeError beyond 8.64e15 ms
MaxDateValue == <<8640000, 0>>

\* text.length > 3 && text.length < 100 (simple.py:53)
MinTitleLen == 3
MaxTitleLen == 100

\* el.textContent.trim(): the text without the white space around it.  A
\* textContent is [lead, body, trail]: body has no outer white space.
Trim(textContent) == textContent.body

\* simple.py:53: the filter on a title element's trimmed text
IsTitleCandidate(text) ==
    text # "" /\ Len(text) > MinTitleLen /\ Len(text) < MaxTitleLen

\* simple.py:50-61: result.titles, in document order
RECURSIVE CollectTitles(_)
CollectTitles(elements) ==
    IF elements = <<>> THEN <<>>
    ELSE LET el   == Head(elements)
             text == Trim(el.textContent)
         IN  (IF IsTitleCandidate(text)
                 THEN <<[text |-> text, position |-> el.rect]>>
                 ELSE <<>>)
             \o CollectTitles(Tail(elements))

\* simple.py:70: 'Chart ' + chartIndex
FallbackLabel(chartIndex) == "Chart " \o ToString(chartIndex)

\* the test with a strict comparison: a title touching the chart's top edge is not above it
IsAboveStrictly(position, chartRect) == position.bottom < chartRect.top
\* simple.py:75: titleInfo.position.bottom <= chartRect.top
IsAbove(position, chartRect) == position.bottom <= chartRect.top

\* simple.py:76
Distance(position, chartRect) == chartRect.top - position.bottom

\* simple.py:77-78
HorizontalOverlap(position, chartRect) ==
    Min(position.right, chartRect.right) - Max(position.left, chartRect.left)

\* the test with <=: a later candidate at the same distance replaces the earlier one
CloserOrEqual(distance, bestDistance) ==
    bestDistance = <<>> \/ distance <= bestDistance[1]
\* simple.py:81, distance < bestDistance; bestDistance is <<>> for Infinity
Closer(distance, bestDistance) ==
    bestDistance = <<>> \/ distance < bestDistance[1]

\* simple.py:73-86: one pass of result.titles.forEach from the k-th title
RECURSIVE TitleLoop(_, _, _, _)
TitleLoop(titles, k, chartRect, best) ==
    IF k > Len(titles) THEN best
    ELSE LET titleInfo == titles[k]
             distance  == Distance(titleInfo.position, chartRect)
             horizontalOverlap ==
                 HorizontalOverlap(titleInfo.position, chartRect)
             taken ==
                 /\ IsAbove(titleInfo.position, chartRect)
                 /\ distance < TitleGapLimit
                 /\ horizontalOverlap > 0
                 /\ Closer(distance, best.bestDistance)
         IN  TitleLoop(titles, k + 1, chartRect,
                       IF taken
                          THEN [bestTitle    |-> titleInfo.text,
                                bestDistance |-> <<distance>>]
                          ELSE best)

\* simple.py:69-86: the title of one chart
BestTitle(titles, chartRect, chartIndex) ==
    TitleLoop(titles, 1, chartRect,
              [bestTitle |-> FallbackLabel(chartIndex),
               bestDistance |-> <<>>]).bestTitle

\* the test with >=: x equal to the threshold is a timestamp
IsEpochInclusive(x) == x.num /\ ~BigGreater(EpochThreshold, x.v)
\* simple.py:106: typeof point.x === 'number' && point.x > 1000000000000
IsEpoch(x) == x.num /\ BigGreater(x.v, EpochThreshold)

\* simple.py:107: new Date(x).toISOString(), the ISO text of the instant
ToISOString(v) == [iso |-> v]

\* simple.py:100-115: the object one point is serialised to
DataPoint(point) ==
    LET keys == {"x", "y"}
                \cup (IF IsEpoch(point.x) THEN {"datetime"} ELSE {})
                \cup (IF point.category # <<>> THEN {"category"} ELSE {})
    IN  [k \in keys |->
            CASE k = "x"        -> point.x
              [] k = "y"        -> point.y
              [] k = "datetime" -> ToISOString(point.x.v)
              [] k = "category" -> point.category[1]]

\* simple.py:97: series.name || 'Series ' + series.index
SeriesName(series, index) ==
    IF series.name # "" THEN series.name ELSE "Series " \o ToString(index)

\* simple.py:95-119
SeriesData(chart) ==
    [s \in DOMAIN chart.series |->
        [name |-> SeriesName(chart.series[s], s - 1),
         data |-> [p \in DOMAIN chart.series[s].data |->
                      DataPoint(chart.series[s].data[p])]]]

\* simple.py:65-123: Highcharts.charts.forEach from the k-th entry
RECURSIVE ChartLoop(_, _, _)
ChartLoop(charts, k, titles) ==
    IF k > Len(charts) THEN <<>>
    ELSE LET chart == charts[k]
             chartIndex == k - 1
         IN  (IF chart.live
                 THEN <<[chartIndex    |-> chartIndex,
                         title         |-> BestTitle(titles, chart.rect, chartIndex),
                         chartPosition |-> chart.rect,
                         series        |-> SeriesData(chart)]>>
                 ELSE <<>>)
             \o ChartLoop(charts, k + 1, titles)

\* simple.py:107: the script throws when a date is out of range
ScriptThrows(p) ==
    /\ p.highcharts.defined
    /\ \E c \in DOMAIN p.highcharts.charts :
          /\ p.highcharts.charts[c].live
          /\ \E s \in DOMAIN p.highcharts.charts[c].series :
                \E q \in DOMAIN p.highcharts.charts[c].series[s].data :
                   LET x == p.highcharts.charts[c].series[s].data[q].x
                   IN  IsEpoch(x) /\ BigGreater(x.v, MaxDateValue)

\* simple.py:43-127: the value of extraction_script on a page
ExtractionScript(p) ==
    LET titles == CollectTitles(p.elements)
    IN  [titles |-> titles,
         charts |-> IF p.highcharts.defined
                       THEN ChartLoop(p.highcharts.charts, 1, titles)
                       ELSE <<>>]


(***************************************************************************)
(* esr/simple.py: convert_to_dataframes.                                   *)
(***************************************************************************)

\* simple.py:172: pd.to_datetime of the ISO text, the instant it names
ToDatetime(isoText) == [ts |-> isoText.iso]

\* simple.py:165-178: the row of one point of one series
Row(series, point) ==
    LET keys == {"series_name", "value"}
                \cup (IF "datetime" \in DOMAIN point THEN {"datetime"} ELSE {"x"})
                \cup (IF "category" \in DOMAIN point THEN {"category"} ELSE {})
    IN  [k \in keys |->
            CASE k = "series_name" -> series.name
              [] k = "value"       -> point.y
              [] k = "datetime"    -> ToDatetime(point.datetime)
              [] k = "x"           -> point.x
              [] k = "category"    -> point.category]

\* simple.py:161-180: all_data of one chart
AllData(chart) ==
    Flatten([s \in DOMAIN chart.series |->
                [p \in DOMAIN chart.series[s].data |->
                    Row(chart.series[s], chart.series[s].data[p])]])

\* sort_index's order on the datetime index: NaT (a row without the key) last
IndexLeq(a, b) ==
    \/ "datetime" \notin DOMAIN b
    \/ "datetime" \in DOMAIN a /\ ~BigGreater(a.datetime.ts, b.datetime.ts)

RECURSIVE SortIndex(_)
\* the frame left in the order of all_data
SortIndexNot(rows) == {rows}
\* simple.py:187: df.sort_index() with the default kind (quicksort), which
\* does not fix the order of rows with equal index: every ordered outcome
SortIndex(rows) ==
    IF rows = <<>> THEN {<<>>}
    ELSE UNION {
            {<<rows[i]>> \o rest : rest \in SortIndex(RemoveAt(rows, i))} :
            i \in {j \in DOMAIN rows :
                      \A k \in DOMAIN rows : IndexLeq(rows[j], rows[k])}}

\* simple.py:183-187: the frames pd.DataFrame(all_data) can become
Frames(all_data) ==
    IF \E i \in DOMAIN all_data : "datetime" \in DOMAIN all_data[i]
       THEN {[index |-> "datetime", rows |-> r] : r \in SortIndex(all_data)}
       ELSE {[index |-> "range", rows |-> all_data]}

\* simple.py:189: dataframes[chart_title] = df
DictSet(dict, key, value) ==
    [k \in DOMAIN dict \cup {key} |-> IF k = key THEN value ELSE dict[k]]

\* simple.py:157-190: the loop over extracted_data['charts'] from the k-th
RECURSIVE ConvertLoop(_, _, _)
ConvertLoop(charts, k, dict) ==
    IF k > Len(charts) THEN {dict}
    ELSE LET all_data == AllData(charts[k])
         IN  IF all_data # <<>>
                THEN UNION {ConvertLoop(charts, k + 1,
                                        DictSet(dict, charts[k].title, df)) :
                            df \in Frames(all_data)}
                ELSE ConvertLoop(charts, k + 1, dict)

\* simple.py:145-192: the dicts convert_to_dataframes can return
ConvertToDataframes(extracted_data) ==
    ConvertLoop(extracted_data.charts, 1, <<>>)

(***************************************************************************)
(* esr/simple.py: the pages of the model.                                  *)
(***************************************************************************)
Rect(top, bottom, left, right) ==
    [top |-> top, bottom |-> bottom, left |-> left, right |-> right]

Element(lead, body, trail, rect) ==
    [textContent |-> [lead |-> lead, body |-> body, trail |-> trail],
     rect |-> rect]

ChartRect1 == Rect(300, 500, 0, 100)
ChartRect2 == Rect(400, 600, 50, 150)

\* heading above both charts: gap 50 to the first, 150 to the second
HeadingAwards == Element(0, "Energy Awards", 0, Rect(230, 250, 0, 200))
\* heading touching the first chart's top edge (gap 0), padded text
HeadingCharge == Element(1, "State of Charge", 2, Rect(280, 300, 0, 100))
\* heading below both charts
HeadingBelow  == Element(0, "Other Metric", 0, Rect(620, 640, 0, 200))
\* heading exactly 200 above the first chart
HeadingFar    == Element(0, "Far Heading", 0, Rect(80, 100, 0, 200))
\* element beside the first chart (overlap 0), above the second (gap 150)
HeadingSide   == Element(0, "Side Note", 0, Rect(230, 250, 100, 120))
\* the same place, with a text that reads like a synthetic label
HeadingLabel  == Element(0, "Chart 1", 0, Rect(230, 250, 100, 120))
\* text of three characters
HeadingShort  == Element(0, "Fig", 0, Rect(270, 290, 0, 200))
\* text of one hundred characters
HeadingLong   ==
    Element(0, "0123456789012345678901234567890123456789012345678901234567890123456789012345678901234567890123456789",
            0, Rect(270, 290, 0, 200))

TitleElements ==
    {HeadingAwards, HeadingCharge, HeadingBelow, HeadingFar, HeadingSide,
     HeadingShort}

Number(hi, lo) == [num |-> TRUE, v |-> <<hi, lo>>]
NotANumber     == [num |-> FALSE, v |-> <<0, 0>>]

Point(x, y, category) == [x |-> x, y |-> y, category |-> category]

PointOrdinal   == Point(Number(0, 5), 1, <<>>)
PointThreshold == Point(Number(1000, 0), 2, <<>>)
PointJustOver  == Point(Number(1000, 1), 3, <<"Jan">>)
PointEpoch     == Point(Number(1700, 0), 4, <<>>)
PointNull      == Point(NotANumber, 5, <<"Feb">>)
PointTooLate   == Point(Number(8640000, 1), 6, <<>>)

Points == {PointThreshold, PointJustOver, PointEpoch}

Series(name, data) == [name |-> name, data |-> data]

HcChart(live, rect, series) == [live |-> live, rect |-> rect, series |-> series]

Page(loads, hasElement, elements, defined, charts) ==
    [loads |-> loads, hasElement |-> hasElement, elements |-> elements,
     highcharts |-> [defined |-> defined, charts |-> charts]]

\* pages that vary the layout: title elements and chart rectangles
LayoutCharts ==
    {HcChart(TRUE, r, <<Series("Discharge", d)>>) :
        r \in {ChartRect1, ChartRect2}, d \in {<<>>, <<PointOrdinal>>}}

LayoutPages ==
    {Page(TRUE, TRUE, e, TRUE, c) :
        e \in InjSeqs(TitleElements, MaxTitles),
        c \in BSeqs(LayoutCharts, MaxCharts)}

\* pages that vary the points of one chart with two series
SeriesPages ==
    {Page(TRUE, TRUE, <<>>, TRUE,
          <<HcChart(TRUE, ChartRect1, <<Series("Discharge", a), Series("", b)>>)>>) :
        a \in BSeqs(Points, MaxPoints), b \in BSeqs(Points, MaxPoints)}

\* pages at the edges: nothing loads, nothing rendered, no registry,
\* destroyed charts, values the script cannot serialise
EdgePages ==
    {Page(FALSE, FALSE, <<>>, FALSE, <<>>),
     Page(TRUE, FALSE, <<>>, FALSE, <<>>),
     Page(TRUE, FALSE, <<HeadingAwards>>, FALSE, <<>>),
     Page(TRUE, TRUE, <<>>, FALSE, <<>>),
     Page(TRUE, TRUE, <<HeadingAwards>>, FALSE, <<>>),
     Page(TRUE, TRUE, <<HeadingAwards>>, TRUE, <<>>),
     Page(TRUE, TRUE, <<HeadingLabel, HeadingLong>>, TRUE,
          <<HcChart(FALSE, ChartRect1, <<>>),
            HcChart(TRUE, ChartRect2, <<Series("Discharge", <<PointEpoch>>)>>)>>),
     Page(TRUE, TRUE, <<HeadingLong>>, TRUE,
          <<HcChart(TRUE, ChartRect1, <<Series("Discharge", <<PointNull>>)>>)>>),
     Page(TRUE, TRUE, <<>>, TRUE,
          <<HcChart(TRUE, ChartRect1, <<Series("Discharge", <<PointTooLate>>)>>)>>)}

Pages == LayoutPages \cup SeriesPages \cup EdgePages

NoPage == Page(FALSE, FALSE, <<>>, FALSE, <<>>)
NoData == [titles |-> <<>>, charts |-> <<>>]

\* simple.py:273 and 267: date.strftime("%Y%m%d") of the k-th day of the range
DateStamps == <<"20220731", "20220801", "20220802", "20220803">>


(***************************************************************************)
(* esr/simple.py: read_single_day_data and the date loop.                  *)
(***************************************************************************)

\* a driver that is never released
QuitNever(d) == d
\* simple.py:142-143: finally: driver.quit()
Quit(d) == "quit"

SimpleInit ==
    /\ day = 1
    /\ pc = "idle"
    /\ page = NoPage
    /\ driver = "none"
    /\ exc = ""
    /\ extracted = NoData
    /\ dataframes = <<>>
    /\ written = {}

\* simple.py:274-275, 243-257, 24-31: the loop takes the next date,
\* read_single_day_data formats its url and the extractor starts Chrome
StartDay ==
    /\ pc = "idle"
    /\ day <= MaxDays
    /\ \E p \in Pages : page' = p
    /\ driver' = "open"
    /\ pc' = "loading"
    /\ UNCHANGED <<day, exc, extracted, dataframes, written>>
    /\ UNCHANGED <<collateVars, scraperVars, formatVars>>

\* simple.py:35-40: driver.get(url), then the wait for a chart element;
\* either may raise, and then the finally clause runs and the exception
\* leaves read_single_day_data and the loop, which has no handler
LoadPage ==
    /\ pc = "loading"
    /\ IF ~page.loads
          THEN /\ exc' = "WebDriverException"
               /\ driver' = Quit(driver)
               /\ pc' = "aborted"
          ELSE IF ~page.hasElement
          THEN /\ exc' = "TimeoutException"
               /\ driver' = Quit(driver)
               /\ pc' = "aborted"
          ELSE /\ pc' = "loaded"
               /\ UNCHANGED <<exc, driver>>
    /\ UNCHANGED <<day, page, extracted, dataframes, written>>
    /\ UNCHANGED <<collateVars, scraperVars, formatVars>>

\* simple.py:130-143: driver.execute_script(extraction_script), the summary
\* prints, return extracted_data; finally: driver.quit()
ExecuteScript ==
    /\ pc = "loaded"
    /\ IF ScriptThrows(page)
          THEN /\ exc' = "JavascriptException"
               /\ pc' = "aborted"
               /\ UNCHANGED extracted
          ELSE /\ extracted' = ExtractionScript(page)
               /\ pc' = "extracted"
               /\ UNCHANGED exc
    /\ driver' = Quit(driver)
    /\ UNCHANGED <<day, page, dataframes, written>>
    /\ UNCHANGED <<collateVars, scraperVars, formatVars>>

\* simple.py:258: dfs_and_names = convert_to_dataframes(data)
Convert ==
    /\ pc = "extracted"
    /\ \E d \in ConvertToDataframes(extracted) : dataframes' = d
    /\ pc' = "converted"
    /\ UNCHANGED <<day, page, driver, exc, extracted, written>>
    /\ UNCHANGED <<collateVars, scraperVars, formatVars>>

\* simple.py:266-267: the file name of one chart title
FileName(date, chart_title) == date \o "_" \o chart_title \o ".csv"

\* simple.py:263-270: one csv per entry of the dict
WriteFiles ==
    /\ pc = "converted"
    /\ written' = {[name |-> FileName(DateStamps[day], t), df |-> dataframes[t]] :
                      t \in DOMAIN dataframes}
    /\ pc' = "written"
    /\ UNCHANGED <<day, page, driver, exc, extracted, dataframes>>
    /\ UNCHANGED <<collateVars, scraperVars, formatVars>>

\* simple.py:270, 274: read_single_day_data returns None, its locals are
\* dropped, and the loop goes on to the next date or ends
NextDate ==
    /\ pc = "written"
    /\ day' = day + 1
    /\ pc' = IF day = MaxDays THEN "finished" ELSE "idle"
    /\ page' = NoPage
    /\ driver' = "none"
    /\ extracted' = NoData
    /\ dataframes' = <<>>
    /\ written' = {}
    /\ UNCHANGED exc
    /\ UNCHANGED <<collateVars, scraperVars, formatVars>>

\* the other programs are not running
CollateOff ==
    /\ cpc = "off" /\ directory = <<>> /\ call = <<>> /\ listing = <<>>
    /\ io = <<>> /\ outcome = <<>> /\ previous = <<>>
ScraperOff ==
    /\ spc = [at |-> "off", k |-> 0] /\ site = <<>> /\ failing = {}
    /\ extracted_js = <<>>
    /\ chart_data = <<>> /\ data_sources = <<>> /\ caught = {}
    /\ env = "" /\ self_driver = "none"
FormatOff ==
    /\ fpc = "off" /\ fdtype = "" /\ raw = <<>> /\ column = <<>> /\ casted = <<>>

Init == SimpleInit /\ CollateOff /\ ScraperOff /\ FormatOff
Next ==
    \/ StartDay
    \/ LoadPage
    \/ ExecuteScript
    \/ Convert
    \/ WriteFiles
    \/ NextDate
Spec == Init /\ [][Next]_vars

(***************************************************************************)
(* Properties of esr/simple.py, checked under Spec.                        *)
(***************************************************************************)

\* read_single_day_data holds the script's result
HasExtracted == pc \in {"extracted", "converted", "written"}

\* the three predicates of title matching, as the specification states them
SpecQualifies(title, chartRect) ==
    /\ title.position.bottom <= chartRect.top
    /\ chartRect.top - title.position.bottom < 200
    /\ Min(title.position.right, chartRect.right)
         - Max(title.position.left, chartRect.left) > 0

SpecGap(title, chartRect) == chartRect.top - title.position.bottom

QualifyingTitles(chart) ==
    {k \in DOMAIN extracted.titles :
        SpecQualifies(extracted.titles[k], chart.chartPosition)}

\* C1: a chart gets the fallback label 'Chart <chartIndex>' when no title
\* candidate is at or above its top edge, less than 200 away and overlapping
\* it horizontally, and only then: as soon as one candidate satisfies the
\* three predicates the title is the text of such a candidate.
C1_FallbackIffNoneQualifies ==
    HasExtracted =>
        \A i \in DOMAIN extracted.charts :
            LET chart == extracted.charts[i]
                q     == QualifyingTitles(chart)
            IN  /\ q = {} => chart.title = "Chart " \o ToString(chart.chartIndex)
                /\ q # {} => \E k \in q : chart.title = extracted.titles[k].text

\* two charts of one page, one left with the fallback although candidates
\* exist (one too far, one beside it), one titled by a candidate
C1_Witness ==
    /\ pc = "extracted"
    /\ Len(extracted.titles) = 2
    /\ \E i, j \in DOMAIN extracted.charts :
          /\ QualifyingTitles(extracted.charts[i]) = {}
          /\ extracted.charts[i].title = "Chart 0"
          /\ \E k \in DOMAIN extracted.titles :
                /\ extracted.titles[k].position.bottom
                     <= extracted.charts[i].chartPosition.top
                /\ SpecGap(extracted.titles[k], extracted.charts[i].chartPosition) = 200
          /\ QualifyingTitles(extracted.charts[j]) # {}
          /\ extracted.charts[j].title = "Side Note"

\* C2: when some candidate qualifies, the title is the text of the
\* qualifying candidate with the smallest gap chart.top - title.bottom, the
\* first such candidate in candidate order when several share that gap.
C2_NearestFirstEncountered ==
    HasExtracted =>
        \A i \in DOMAIN extracted.charts :
            LET chart == extracted.charts[i]
                q     == QualifyingTitles(chart)
                gap(k) == SpecGap(extracted.titles[k], chart.chartPosition)
            IN  q # {} =>
                  \E k \in q :
                     /\ \A j \in q : gap(k) <= gap(j)
                     /\ \A j \in q : gap(j) = gap(k) => k <= j
                     /\ chart.title = extracted.titles[k].text

\* a chart with two qualifying candidates at the same gap and different
\* texts, titled by the first
C2_Witness ==
    /\ pc = "extracted"
    /\ \E i \in DOMAIN extracted.charts :
          LET chart == extracted.charts[i]
              gap(k) == SpecGap(extracted.titles[k], chart.chartPosition)
          IN  /\ QualifyingTitles(chart) = {1, 2}
              /\ gap(1) = gap(2)
              /\ extracted.titles[1].text # extracted.titles[2].text
              /\ chart.title = extracted.titles[1].text

\* the points of the page's chart an extracted chart record came from, in
\* series order then point order
PagePoints(chart) ==
    LET source == page.highcharts.charts[chart.chartIndex + 1]
    IN  Flatten([s \in DOMAIN source.series |-> source.series[s].data])

\* C3: every row carries exactly one of 'datetime' and 'x', and carries
\* 'datetime' exactly when the point's x is a number above 1000000000000.
C3_ExactlyOneTimeColumn ==
    pc \in {"converted", "written"} =>
        /\ \A t \in DOMAIN dataframes :
              \A i \in DOMAIN dataframes[t].rows :
                 LET row == dataframes[t].rows[i]
                 IN  ("datetime" \in DOMAIN row) # ("x" \in DOMAIN row)
        /\ \A c \in DOMAIN extracted.charts :
              LET rows   == AllData(extracted.charts[c])
                  points == PagePoints(extracted.charts[c])
              IN  /\ Len(rows) = Len(points)
                  /\ \A i \in DOMAIN rows :
                        /\ ("datetime" \in DOMAIN rows[i]) # ("x" \in DOMAIN rows[i])
                        /\ "datetime" \in DOMAIN rows[i]
                             <=> /\ points[i].x.num
                                 /\ BigGreater(points[i].x.v, <<1000, 0>>)

\* a table with a timestamp row and an ordinal row whose x is exactly the
\* threshold
C3_Witness ==
    /\ pc = "converted"
    /\ \E t \in DOMAIN dataframes :
          /\ \E i \in DOMAIN dataframes[t].rows :
                "datetime" \in DOMAIN dataframes[t].rows[i]
          /\ \E i \in DOMAIN dataframes[t].rows :
                /\ "x" \in DOMAIN dataframes[t].rows[i]
                /\ dataframes[t].rows[i].x = Number(1000, 0)

\* C9: a day whose page loads but has no chart registry or no chart element
\* is an empty result: zero charts, and the loop is not left by an exception.
C9_EmptyDayIsNotAnError ==
    (/\ pc \notin {"idle", "finished"}
     /\ page.loads
     /\ (~page.highcharts.defined \/ ~page.hasElement))
        => (pc # "aborted" /\ extracted.charts = <<>>)

\* the number of points of an extracted chart record
PointCount(chart) == Len(AllData(chart))

RECURSIVE SumOver(_, _)
SumOver(f, S) ==
    IF S = {} THEN 0
    ELSE LET e == CHOOSE e \in S : TRUE IN f[e] + SumOver(f, S \ {e})

\* C10: convert_to_dataframes returns one table per chart that has a point:
\* as many tables as such charts, holding every point of every such chart.
C10_OneTablePerChart ==
    pc = "converted" =>
        LET withPoints == {c \in DOMAIN extracted.charts :
                              PointCount(extracted.charts[c]) > 0}
        IN  /\ Cardinality(DOMAIN dataframes) = Cardinality(withPoints)
            /\ SumOver([t \in DOMAIN dataframes |-> Len(dataframes[t].rows)],
                       DOMAIN dataframes)
                 = SumOver([c \in withPoints |-> PointCount(extracted.charts[c])],
                           withPoints)

(***************************************************************************)
(* esr/collate.py: strings are sequences of characters, so that lower-     *)
(* casing, the regular-expression replacement and the file-name patterns   *)
(* are computed character by character.                                    *)
(***************************************************************************)

\* collate.py:14-19
AS_ENUM == <<
    <<"r", "e", "g", "_", "d", "o", "w", "n">>,
    <<"r", "e", "g", "_", "u", "p">>,
    <<"n", "o", "n", "_", "s", "p", "i", "n">>,
    <<"s", "p", "i", "n">>
>>

\* collate.py:21-34
BID_ENUM == <<
    <<"[", "-", "$", "1", "5", "0", ",", "-", "$", "1", "0", "0", "]">>,
    <<"(", "-", "$", "1", "0", "0", ",", "-", "$", "5", "0", "]">>,
    <<"(", "-", "$", "5", "0", ",", "-", "$", "1", "5", "]">>,
    <<"(", "-", "$", "1", "5", ",", " ", "$", "0", "]">>,
    <<"(", "$", "0", ",", " ", "$", "1", "5", "]">>,
    <<"(", "$", "1", "5", ",", " ", "$", "5", "0", "]">>,
    <<"(", "$", "5", "0", ",", " ", "$", "1", "0", "0", "]">>,
    <<"(", "$", "1", "0", "0", ",", " ", "$", "2", "0", "0", "]">>,
    <<"(", "$", "2", "0", "0", ",", " ", "$", "5", "0", "0", "]">>,
    <<"(", "$", "5", "0", "0", ",", " ", "$", "1", "0", "0", "0", "]">>,
    <<"(", "$", "1", "0", "0", "0", ",", " ", "$", "2", "0", "0", "0", "]">>,
    <<"s", "e", "l", "f", "_", "s", "c", "h", "e", "d", "u", "l", "e">>
>>

\* collate.py:36-41
ENERGY_ENUM == <<
    <<"i", "f", "m">>,
    <<"r", "u", "c">>,
    <<"f", "m", "m">>,
    <<"r", "t", "d">>
>>

\* collate.py:43-56
OFFER_ENUM == <<
    <<"s", "e", "l", "f", "_", "s", "c", "h", "e", "d", "u", "l", "e">>,
    <<"[", "-", "$", "1", "5", "0", ",", "-", "$", "1", "0", "0", "]">>,
    <<"(", "-", "$", "1", "0", "0", ",", "-", "$", "5", "0", "]">>,
    <<"(", "-", "$", "5", "0", ",", "-", "$", "1", "5", "]">>,
    <<"(", "-", "$", "1", "5", ",", " ", "$", "0", "]">>,
    <<"(", "$", "0", ",", " ", "$", "1", "5", "]">>,
    <<"(", "$", "1", "5", ",", " ", "$", "5", "0", "]">>,
    <<"(", "$", "5", "0", ",", " ", "$", "1", "0", "0", "]">>,
    <<"(", "$", "1", "0", "0", ",", " ", "$", "2", "0", "0", "]">>,
    <<"(", "$", "2", "0", "0", ",", " ", "$", "5", "0", "0", "]">>,
    <<"(", "$", "5", "0", "0", ",", " ", "$", "1", "0", "0", "0", "]">>,
    <<"(", "$", "1", "0", "0", "0", ",", " ", "$", "2", "0", "0", "0", "]">>
>>

\* collate.py:58-63
SOC_ENUM == <<
    <<"i", "f", "m">>,
    <<"r", "u", "c">>,
    <<"f", "m", "m">>,
    <<"r", "t", "d">>
>>

\* collate.py:72-81: the keys of FILE_PATTERNS, in order
DTypes ==
    <<"fmm_as_awards", "fmm_bids", "fmm_offers", "ifm_as_awards", "ifm_bids",
      "ifm_offers", "energy_awards", "state_of_charge">>

\* collate.py:72-81: the text after (\d{8}) in each pattern, up to the '.'
PatternStem(dtype) ==
    CASE dtype = "fmm_as_awards"   -> <<"_", "F", "M", "M", " ", "A", "S", " ", "A", "w", "a", "r", "d", "s">>
      [] dtype = "fmm_bids"        -> <<"_", "F", "M", "M", " ", "E", "n", "e", "r", "g", "y", " ", "B", "i", "d", " ", "I", "n", " ", "C", "a", "p", "a", "c", "i", "t", "y", " ", "-", " ", "C", "h", "a", "r", "g", "e">>
      [] dtype = "fmm_offers"      -> <<"_", "F", "M", "M", " ", "E", "n", "e", "r", "g", "y", " ", "B", "i", "d", " ", "I", "n", " ", "C", "a", "p", "a", "c", "i", "t", "y", " ", "-", " ", "D", "i", "s", "c", "h", "a", "r", "g", "e">>
      [] dtype = "ifm_as_awards"   -> <<"_", "I", "F", "M", " ", "A", "S", " ", "A", "w", "a", "r", "d", "s">>
      [] dtype = "ifm_bids"        -> <<"_", "I", "F", "M", " ", "E", "n", "e", "r", "g", "y", " ", "B", "i", "d", " ", "I", "n", " ", "C", "a", "p", "a", "c", "i", "t", "y", " ", "-", " ", "C", "h", "a", "r", "g", "e">>
      [] dtype = "ifm_offers"      -> <<"_", "I", "F", "M", " ", "E", "n", "e", "r", "g", "y", " ", "B", "i", "d", " ", "I", "n", " ", "C", "a", "p", "a", "c", "i", "t", "y", " ", "-", " ", "D", "i", "s", "c", "h", "a", "r", "g", "e">>
      [] dtype = "energy_awards"   -> <<"_", "T", "o", "t", "a", "l", " ", "E", "n", "e", "r", "g", "y", " ", "A", "w", "a", "r", "d", "s">>
      [] dtype = "state_of_charge" -> <<"_", "T", "o", "t", "a", "l", " ", "S", "t", "a", "t", "e", " ", "o", "f", " ", "C", "h", "a", "r", "g", "e">>

\* collate.py:72-81: the text after the '.' in each pattern
PatternExtension == <<"c", "s", "v">>

Digits == {"0", "1", "2", "3", "4", "5", "6", "7", "8", "9"}

\* \d{8}
DateDigits == 8

IsPrefix(p, s) == Len(p) <= Len(s) /\ SubSeq(s, 1, Len(p)) = p

\* collate.py:221, 243: pattern.match(csv.name).  re.match anchors the
\* pattern at the start of the name only, and the unescaped '.' of the
\* pattern matches any one character but a newline.
PatternMatch(dtype, name) ==
    LET stem == PatternStem(dtype)
        dot  == DateDigits + Len(stem) + 1
    IN  /\ Len(name) >= dot + Len(PatternExtension)
        /\ \A i \in 1..DateDigits : name[i] \in Digits
        /\ SubSeq(name, DateDigits + 1, DateDigits + Len(stem)) = stem
        /\ name[dot] # "\n"
        /\ SubSeq(name, dot + 1, dot + Len(PatternExtension)) = PatternExtension

LowerOf ==
    ("A" :> "a") @@ ("B" :> "b") @@ ("C" :> "c") @@ ("D" :> "d") @@ ("E" :> "e") @@ ("F" :> "f") @@
    ("G" :> "g") @@ ("H" :> "h") @@ ("I" :> "i") @@ ("J" :> "j") @@ ("K" :> "k") @@ ("L" :> "l") @@
    ("M" :> "m") @@ ("N" :> "n") @@ ("O" :> "o") @@ ("P" :> "p") @@ ("Q" :> "q") @@ ("R" :> "r") @@
    ("S" :> "s") @@ ("T" :> "t") @@ ("U" :> "u") @@ ("V" :> "v") @@ ("W" :> "w") @@ ("X" :> "x") @@
    ("Y" :> "y") @@ ("Z" :> "z")

\* .str.to_lowercase()
ToLowercase(s) ==
    [i \in DOMAIN s |-> IF s[i] \in DOMAIN LowerOf THEN LowerOf[s[i]] ELSE s[i]]

\* the characters the regular expression \s matches
Whitespace == {" ", "\t", "\n", "\r", "\f"}

\* a replacement of every whitespace character (str.replace_all)
StrReplaceEvery(s) ==
    [i \in DOMAIN s |-> IF s[i] \in Whitespace THEN "_" ELSE s[i]]
\* .str.replace(r"\s", "_"): str.replace replaces the first match only
StrReplace(s) ==
    LET hits == {i \in DOMAIN s : s[i] \in Whitespace}
    IN  IF hits = {} THEN s
        ELSE LET first == CHOOSE i \in hits : \A j \in hits : i <= j
             IN  [i \in DOMAIN s |-> IF i = first THEN "_" ELSE s[i]]

\* a formatter without the mapping of 'self schedule'
ReplaceNothing(s) == s
\* .replace({"self schedule": "self_schedule"}): a mapping of whole values
Replace(s) ==
    IF s = <<"s", "e", "l", "f", " ", "s", "c", "h", "e", "d", "u", "l", "e">>
       THEN <<"s", "e", "l", "f", "_", "s", "c", "h", "e", "d", "u", "l", "e">>
       ELSE s

\* collate.py:107-114, 239: getattr(self, f"format_{dtype}"); the fmm
\* formatters call their ifm counterparts
Formatter(dtype) ==
    CASE dtype = "fmm_as_awards" -> "ifm_as_awards"
      [] dtype = "fmm_bids"      -> "ifm_bids"
      [] dtype = "fmm_offers"    -> "ifm_offers"
      [] OTHER                   -> dtype

\* collate.py:95-98, 128-131, 152-155, 176-179, 200-203: the expression on
\* series_name before the cast
Normalise(formatter, series_name) ==
    IF formatter \in {"energy_awards", "ifm_as_awards"}
       THEN StrReplace(ToLowercase(series_name))
       ELSE Replace(ToLowercase(series_name))

\* collate.py:98, 131, 155, 179, 203: the enumeration each formatter casts to
EnumOf(formatter) ==
    CASE formatter = "energy_awards"   -> ENERGY_ENUM
      [] formatter = "ifm_as_awards"   -> AS_ENUM
      [] formatter = "ifm_bids"        -> BID_ENUM
      [] formatter = "ifm_offers"      -> OFFER_ENUM
      [] formatter = "state_of_charge" -> SOC_ENUM

\* collate.py:100-104, 133-137, 157-161, 181-185, 205-209: the name
\* series_name is renamed to
DimensionColumn(formatter) ==
    IF formatter \in {"energy_awards", "state_of_charge"}
       THEN "market" ELSE "service"

InEnum(enum, literal) == \E i \in DOMAIN enum : enum[i] = literal

\* the position of a literal in its enumeration, the order polars sorts by
EnumIndex(enum, literal) == CHOOSE i \in DOMAIN enum : enum[i] = literal

\* a cast that accepts any value
CastLenient(enum, literal) == [ok |-> TRUE, value |-> literal]
\* .cast(<ENUM>): the cast is strict, a value outside the enumeration fails
Cast(enum, literal) == [ok |-> InEnum(enum, literal), value |-> literal]

\* collate.py:83-210: one row of a formatted frame; category is dropped
FormatRow(formatter, csvRow) ==
    LET cast == Cast(EnumOf(formatter), Normalise(formatter, csvRow.series_name))
        dim  == DimensionColumn(formatter)
    IN  [ok  |-> cast.ok,
         row |-> [c \in {"timestamp", dim, "volume"} |->
                     CASE c = "timestamp" -> csvRow.datetime
                       [] c = "volume"    -> csvRow.value
                       [] OTHER           -> cast.value]]

\* collate.py:83-210: a formatted file, collected
Format(formatter, csvRows) ==
    LET formatted == [i \in DOMAIN csvRows |-> FormatRow(formatter, csvRows[i])]
    IN  [ok   |-> \A i \in DOMAIN formatted : formatted[i].ok,
         rows |-> [i \in DOMAIN formatted |-> formatted[i].row]]

\* the sort columns without the distinction of the metric
SortColumnsAlwaysService(dtype) == <<"timestamp", "service">>
\* collate.py:247-250
SortColumns(dtype) ==
    IF dtype = "energy_awards" \/ dtype = "state_of_charge"
       THEN <<"timestamp", "market">>
       ELSE <<"timestamp", "service">>

(***************************************************************************)
(* esr/collate.py: the files of the model.                                 *)
(***************************************************************************)
Category == <<"T", "o", "t", "a", "l">>

\* a row of a per-day csv: datetime, series_name, value, category
CsvRow(datetime, series_name, value) ==
    [datetime |-> datetime, series_name |-> series_name, value |-> value,
     category |-> Category]

CsvFile(name, rows) == [name |-> name, rows |-> rows]

\* two rows, later timestamp first
FileCharge1 ==
    CsvFile(<<"2", "0", "2", "2", "0", "7", "3", "1">> \o PatternStem("state_of_charge")
              \o <<".", "c", "s", "v">>,
          <<CsvRow(2, <<"R", "T", "D">>, 10),
           CsvRow(1, <<"I", "F", "M">>, 20)>>)

\* a row with the key (1, ifm) of FileCharge1 and another volume
FileCharge2 ==
    CsvFile(<<"2", "0", "2", "2", "0", "8", "0", "1">> \o PatternStem("state_of_charge")
              \o <<".", "c", "s", "v">>,
          <<CsvRow(1, <<"i", "f", "m">>, 30),
           CsvRow(3, <<"F", "m", "m">>, 40)>>)

\* a series name outside the enumeration
FileChargeBad ==
    CsvFile(<<"2", "0", "2", "2", "0", "8", "0", "2">> \o PatternStem("state_of_charge")
              \o <<".", "c", "s", "v">>,
          <<CsvRow(1, <<"I", "F", "M">>, 50),
           CsvRow(1, <<"D", "a", "y", " ", "A", "h", "e", "a", "d">>, 60)>>)

\* characters after the pattern: a kept copy of FileCharge1, same rows
FileChargeBak ==
    CsvFile(<<"2", "0", "2", "2", "0", "7", "3", "1">> \o PatternStem("state_of_charge")
              \o <<".", "c", "s", "v", ".", "b", "a", "k">>,
          <<CsvRow(2, <<"R", "T", "D">>, 10),
           CsvRow(1, <<"I", "F", "M">>, 20)>>)

\* another character in place of the '.'
FileChargeNoDot ==
    CsvFile(<<"2", "0", "2", "2", "0", "8", "0", "4">> \o PatternStem("state_of_charge")
              \o <<"X", "c", "s", "v">>,
          <<CsvRow(5, <<"r", "t", "d">>, 80)>>)

\* seven digits
FileChargeShort ==
    CsvFile(<<"2", "0", "2", "2", "0", "8", "0">> \o PatternStem("state_of_charge")
              \o <<".", "c", "s", "v">>,
          <<CsvRow(6, <<"i", "f", "m">>, 90)>>)

\* enumeration order differs from alphabetical order
FileEnergy1 ==
    CsvFile(<<"2", "0", "2", "2", "0", "7", "3", "1">> \o PatternStem("energy_awards")
              \o <<".", "c", "s", "v">>,
          <<CsvRow(1, <<"F", "M", "M">>, 10),
           CsvRow(1, <<"I", "F", "M">>, 20),
           CsvRow(1, <<"R", "T", "D">>, 30)>>)

\* a header and no rows
FileEnergyEmpty ==
    CsvFile(<<"2", "0", "2", "2", "0", "8", "0", "1">> \o PatternStem("energy_awards")
              \o <<".", "c", "s", "v">>,
          <<>>)

FileIfmAs ==
    CsvFile(<<"2", "0", "2", "2", "0", "7", "3", "1">> \o PatternStem("ifm_as_awards")
              \o <<".", "c", "s", "v">>,
          <<CsvRow(1, <<"S", "p", "i", "n">>, 10),
           CsvRow(1, <<"R", "e", "g", " ", "U", "p">>, 20),
           CsvRow(1, <<"N", "o", "n", " ", "S", "p", "i", "n">>, 30)>>)

FileFmmAs ==
    CsvFile(<<"2", "0", "2", "2", "0", "7", "3", "1">> \o PatternStem("fmm_as_awards")
              \o <<".", "c", "s", "v">>,
          <<CsvRow(2, <<"R", "e", "g", " ", "D", "o", "w", "n">>, 10),
           CsvRow(1, <<"R", "e", "g", " ", "D", "o", "w", "n">>, 20)>>)

FileIfmBids ==
    CsvFile(<<"2", "0", "2", "2", "0", "7", "3", "1">> \o PatternStem("ifm_bids")
              \o <<".", "c", "s", "v">>,
          <<CsvRow(1, <<"S", "e", "l", "f", " ", "S", "c", "h", "e", "d", "u", "l", "e">>, 10),
           CsvRow(1, <<"(", "$", "0", ",", " ", "$", "1", "5", "]">>, 20)>>)

FileFmmBids ==
    CsvFile(<<"2", "0", "2", "2", "0", "7", "3", "1">> \o PatternStem("fmm_bids")
              \o <<".", "c", "s", "v">>,
          <<CsvRow(1, <<"(", "$", "1", "5", ",", " ", "$", "5", "0", "]">>, 10),
           CsvRow(1, <<"[", "-", "$", "1", "5", "0", ",", "-", "$", "1", "0", "0", "]">>, 20)>>)

FileIfmOffers ==
    CsvFile(<<"2", "0", "2", "2", "0", "7", "3", "1">> \o PatternStem("ifm_offers")
              \o <<".", "c", "s", "v">>,
          <<CsvRow(1, <<"(", "$", "0", ",", " ", "$", "1", "5", "]">>, 10),
           CsvRow(1, <<"S", "e", "l", "f", " ", "S", "c", "h", "e", "d", "u", "l", "e">>, 20)>>)

FileFmmOffers ==
    CsvFile(<<"2", "0", "2", "2", "0", "7", "3", "1">> \o PatternStem("fmm_offers")
              \o <<".", "c", "s", "v">>,
          <<CsvRow(1, <<"(", "$", "5", "0", "0", ",", " ", "$", "1", "0", "0", "0", "]">>, 10)>>)

\* the hybrid root's file
FileHybridCharge ==
    CsvFile(<<"2", "0", "2", "2", "0", "7", "3", "1">> \o PatternStem("state_of_charge")
              \o <<".", "c", "s", "v">>,
          <<CsvRow(1, <<"R", "T", "D">>, 10),
           CsvRow(1, <<"F", "M", "M">>, 20)>>)

FilePool ==
    {FileCharge1, FileCharge2, FileChargeBad, FileChargeBak,
     FileChargeNoDot, FileChargeShort, FileEnergy1, FileEnergyEmpty,
     FileIfmAs, FileFmmAs, FileIfmBids, FileFmmBids,
     FileIfmOffers, FileFmmOffers}

(***************************************************************************)
(* esr/collate.py: EsrCollater.collate.                                    *)
(***************************************************************************)
MaxFiles == 2       \* files under the storage root

Subsets(S, n) == {T \in SUBSET S : Cardinality(T) <= n}

\* collate.py:69-70: what lies under STORAGE_ROOT and HYBRID_ROOT
Directories ==
    {[storage |-> s, hybrid |-> {FileHybridCharge}] : s \in Subsets(FilePool, MaxFiles)}

\* the arguments of the calls of the model: every metric kind on both
\* roots, and unrecognised values of either argument
Calls ==
    {[dtype |-> DTypes[i], btype |-> b] : i \in DOMAIN DTypes, b \in {"storage", "hybrid"}}
    \cup {[dtype |-> "soc", btype |-> b] : b \in {"storage", "solar"}}
    \cup {[dtype |-> d, btype |-> "solar"] : d \in {"state_of_charge", "ifm_bids"}}

Range(s) == {s[i] : i \in DOMAIN s}

\* every order of the elements of a set
Orders(S) == {s \in [1..Cardinality(S) -> S] : Range(s) = S}

NoOutcome == [kind |-> "none"]

\* a validation without the btype check
ValidateDTypeOnly(dtype, btype) ==
    IF dtype \notin Range(DTypes) THEN "dtype" ELSE "ok"
\* collate.py:219-236: the checks of dtype, then btype
Validate(dtype, btype) ==
    IF dtype \notin Range(DTypes) THEN "dtype"
    ELSE IF btype \notin {"storage", "hybrid"} THEN "btype"
    ELSE "ok"

\* collate.py:228-231
Root(btype) == IF btype = "storage" THEN directory.storage ELSE directory.hybrid

\* the row order of .sort(by): by the first column, then by the second,
\* an enumeration column in the order of its literals, null first
EnumRank(enum, literal) ==
    IF InEnum(enum, literal) THEN EnumIndex(enum, literal) ELSE 0

\* the row order on the timestamp alone
RowLeqFirstColumn(a, b, by, enum) == a[by[1]] <= b[by[1]]
RowLeq(a, b, by, enum) ==
    \/ a[by[1]] < b[by[1]]
    \/ /\ a[by[1]] = b[by[1]]
       /\ EnumRank(enum, a[by[2]]) <= EnumRank(enum, b[by[2]])

RECURSIVE SortRows(_, _, _)
\* the concatenation left unsorted
SortRowsNot(rows, by, enum) == {rows}
\* collate.py:252: .sort(by) does not maintain the order of rows with equal
\* keys (maintain_order=False): every ordered outcome
SortRows(rows, by, enum) ==
    IF rows = <<>> THEN {<<>>}
    ELSE UNION {
            {<<rows[i]>> \o rest : rest \in SortRows(RemoveAt(rows, i), by, enum)} :
            i \in {j \in DOMAIN rows :
                      \A k \in DOMAIN rows : RowLeq(rows[j], rows[k], by, enum)}}

\* a concatenation that keeps one of several equal rows
RECURSIVE ConcatUnique(_)
ConcatUnique(frames) ==
    IF frames = <<>> THEN <<>>
    ELSE LET rest == ConcatUnique(Tail(frames))
             head == Head(frames)
             kept == {i \in DOMAIN head :
                        /\ \A j \in DOMAIN head : j < i => head[j] # head[i]
                        /\ \A j \in DOMAIN rest : rest[j] # head[i]}
             RECURSIVE Pick(_)
             Pick(i) == IF i > Len(head) THEN <<>>
                        ELSE (IF i \in kept THEN <<head[i]>> ELSE <<>>) \o Pick(i + 1)
         IN  Pick(1) \o rest
\* collate.py:252: pl.concat(frames, how="vertical")
Concat(frames) == Flatten(frames)

\* a concatenation that gives an empty frame for no frames
ConcatNeverRaises(frames) == FALSE
\* collate.py:252: pl.concat raises ValueError on an empty list
ConcatRaises(frames) == frames = <<>>

\* the names the loop of collate.py:242-245 keeps, in listing order
RECURSIVE Matching(_, _)
Matching(dtype, names) ==
    IF names = <<>> THEN <<>>
    ELSE (IF PatternMatch(dtype, Head(names)) THEN <<Head(names)>> ELSE <<>>)
         \o Matching(dtype, Tail(names))

FileNamed(files, name) == CHOOSE f \in files : f.name = name

CollateInit ==
    /\ cpc = "idle"
    /\ directory \in Directories
    /\ call \in Calls
    /\ listing = <<>>
    /\ io = <<>>
    /\ outcome = NoOutcome
    /\ previous = [listing |-> <<>>, outcome |-> NoOutcome]

\* collate.py:218-239: collate(dtype, btype) up to the choice of the
\* formatter; an unrecognised argument raises ValueError
CallCollate ==
    /\ cpc \in {"idle", "done"}
    /\ previous' = [listing |-> listing, outcome |-> outcome]
    /\ listing' = <<>>
    /\ io' = <<>>
    /\ LET checked == Validate(call.dtype, call.btype)
       IN  IF checked = "dtype"
              THEN /\ outcome' = [kind |-> "ValueError", about |-> call.dtype,
                                  valid |-> Range(DTypes)]
                   /\ cpc' = "done"
           ELSE IF checked = "btype"
              THEN /\ outcome' = [kind |-> "ValueError", about |-> call.btype,
                                  valid |-> {"storage", "hybrid"}]
                   /\ cpc' = "done"
           ELSE /\ outcome' = NoOutcome
                /\ cpc' = "listing"
    /\ UNCHANGED <<directory, call>>
    /\ UNCHANGED <<simpleVars, scraperVars, formatVars>>

\* collate.py:241-252: root.iterdir() yields the names in some order, each
\* matching name gets a lazy frame from the formatter, and the frames are
\* concatenated and sorted lazily; pl.concat of no frames raises ValueError
ListFiles ==
    /\ cpc = "listing"
    /\ \E order \in Orders({f.name : f \in Root(call.btype)}) :
          LET frames == Matching(call.dtype, order)
          IN  /\ listing' = order
              /\ io' = <<"iterdir">> \o [i \in DOMAIN frames |-> "scan_csv"]
              /\ IF ConcatRaises(frames)
                    THEN /\ outcome' = [kind |-> "ValueError", about |-> "concat",
                                        valid |-> {}]
                         /\ cpc' = "done"
                    ELSE /\ outcome' = [kind |-> "LazyFrame", files |-> frames,
                                        by |-> SortColumns(call.dtype)]
                         /\ cpc' = "lazy"
    /\ UNCHANGED <<directory, call, previous>>
    /\ UNCHANGED <<simpleVars, scraperVars, formatVars>>

\* collate.py:261-262: the lazy frame is collected (sink_parquet): the files
\* are read and cast, the rows concatenated in frame order and sorted
Collect ==
    /\ cpc = "lazy"
    /\ LET formatter == Formatter(call.dtype)
           parsed == [i \in DOMAIN outcome.files |->
                        Format(formatter,
                               FileNamed(Root(call.btype), outcome.files[i]).rows)]
           rows == Concat([i \in DOMAIN parsed |-> parsed[i].rows])
           columns == {"timestamp", DimensionColumn(formatter), "volume"}
       IN  IF \E i \in DOMAIN parsed : ~parsed[i].ok
              THEN outcome' = [kind |-> "InvalidOperationError"]
           ELSE IF Range(outcome.by) \subseteq columns
              THEN \E sorted \in SortRows(rows, outcome.by, EnumOf(formatter)) :
                      outcome' = [kind |-> "table", columns |-> columns,
                                  rows |-> sorted]
           ELSE outcome' = [kind |-> "ColumnNotFoundError"]
    /\ io' = io \o [i \in DOMAIN outcome.files |-> "read"]
    /\ cpc' = "done"
    /\ UNCHANGED <<directory, call, listing, previous>>
    /\ UNCHANGED <<simpleVars, scraperVars, formatVars>>

\* the other programs are not running
SimpleOff ==
    /\ day = 0 /\ pc = "off" /\ page = NoPage /\ driver = "none" /\ exc = ""
    /\ extracted = NoData /\ dataframes = <<>> /\ written = {}

InitCollate == CollateInit /\ SimpleOff /\ ScraperOff /\ FormatOff
NextCollate ==
    \/ CallCollate
    \/ ListFiles
    \/ Collect
SpecCollate == InitCollate /\ [][NextCollate]_vars

(***************************************************************************)
(* Properties of esr/collate.py, checked under SpecCollate.                *)
(***************************************************************************)

\* the closed enumeration of each metric kind
SpecEnumeration(dtype) ==
    CASE dtype \in {"energy_awards"}                   -> Range(ENERGY_ENUM)
      [] dtype \in {"state_of_charge"}                 -> Range(SOC_ENUM)
      [] dtype \in {"ifm_as_awards", "fmm_as_awards"}  -> Range(AS_ENUM)
      [] dtype \in {"ifm_bids", "fmm_bids"}            -> Range(BID_ENUM)
      [] dtype \in {"ifm_offers", "fmm_offers"}        -> Range(OFFER_ENUM)

\* the dimension column of each metric kind
SpecDimension(dtype) ==
    IF dtype \in {"energy_awards", "state_of_charge"} THEN "market" ELSE "service"

\* the csv rows of the files the last call parsed, in listing order
ParsedCsvRows ==
    LET names == Matching(call.dtype, listing)
    IN  Flatten([i \in DOMAIN names |-> FileNamed(Root(call.btype), names[i]).rows])

\* the last call went through the checks of its arguments and found files
Collected == cpc = "done" /\ outcome.kind \in {"table", "InvalidOperationError"}

\* C4: every row of a parsed table has a market/service value of the metric's
\* enumeration; a row whose normalised series name is outside it makes the
\* parse end in an error, and the table has a row for every csv row.
C4_EnumerationIsClosed ==
    Collected =>
        LET bad == {i \in DOMAIN ParsedCsvRows :
                       Normalise(Formatter(call.dtype), ParsedCsvRows[i].series_name)
                           \notin SpecEnumeration(call.dtype)}
        IN  /\ bad # {} => outcome.kind = "InvalidOperationError"
            /\ outcome.kind = "table" =>
                  /\ Len(outcome.rows) = Len(ParsedCsvRows)
                  /\ \A i \in DOMAIN outcome.rows :
                        outcome.rows[i][SpecDimension(call.dtype)]
                            \in SpecEnumeration(call.dtype)

\* two files were parsed, one of them with a series name outside the
\* enumeration beside a valid one, and the call ended in the cast's error
C4_Witness ==
    /\ cpc = "done"
    /\ outcome.kind = "InvalidOperationError"
    /\ Len(Matching(call.dtype, listing)) = 2
    /\ \E i, j \in DOMAIN ParsedCsvRows :
          /\ ToLowercase(ParsedCsvRows[i].series_name) \in SpecEnumeration(call.dtype)
          /\ ToLowercase(ParsedCsvRows[j].series_name) \notin SpecEnumeration(call.dtype)

\* the sort key of a row: the timestamp, then the position of the
\* market/service value in the metric's enumeration
SpecKeyLeq(a, b, dtype) ==
    LET dim  == SpecDimension(dtype)
        enum == EnumOf(Formatter(dtype))
    IN  \/ a.timestamp < b.timestamp
        \/ /\ a.timestamp = b.timestamp
           /\ EnumIndex(enum, a[dim]) <= EnumIndex(enum, b[dim])

\* C5: the collated rows are in ascending order of (timestamp, dimension),
\* the dimension column being 'market' for energy_awards and state_of_charge
\* and 'service' for the other metric kinds; enumeration values compare in
\* the order of the enumeration's literals.
C5_SortedByTimestampAndDimension ==
    (cpc = "done" /\ outcome.kind # "ValueError") =>
        \/ outcome.kind = "InvalidOperationError"
        \/ /\ outcome.kind = "table"
           /\ outcome.columns = {"timestamp", SpecDimension(call.dtype), "volume"}
           /\ \A i \in 1..(Len(outcome.rows) - 1) :
                 SpecKeyLeq(outcome.rows[i], outcome.rows[i + 1], call.dtype)

\* a table of two files whose concatenation was out of order, with rows of
\* one timestamp in the enumeration's order, which is not the alphabetical
C5_Witness ==
    /\ cpc = "done"
    /\ outcome.kind = "table"
    /\ call.dtype = "energy_awards"
    /\ Len(outcome.rows) = 3
    /\ [i \in 1..3 |-> outcome.rows[i].market]
          = <<ENERGY_ENUM[1], ENERGY_ENUM[3], ENERGY_ENUM[4]>>
    /\ \E i \in DOMAIN ParsedCsvRows :
          /\ i < Len(ParsedCsvRows)
          /\ ToLowercase(ParsedCsvRows[i].series_name) = ENERGY_ENUM[3]
          /\ ToLowercase(ParsedCsvRows[i + 1].series_name) = ENERGY_ENUM[1]

\* two calls on the same files both returned a table
TwoTables == cpc = "done" /\ outcome.kind = "table" /\ previous.outcome.kind = "table"

\* C6 as stated: whatever the two listing orders, the two tables hold the
\* same sequence of rows, rows with equal (timestamp, dimension) included.
C6_SameRowSequence ==
    TwoTables => outcome.rows = previous.outcome.rows

Count(s, e) == Cardinality({i \in DOMAIN s : s[i] = e})

SameMultiset(s, t) ==
    /\ Len(s) = Len(t)
    /\ \A i \in DOMAIN s : Count(s, s[i]) = Count(t, s[i])

SpecKey(row, dtype) == <<row.timestamp, row[SpecDimension(dtype)]>>

\* C6 amended: whatever the two listing orders, the two tables hold the same
\* rows with the same sequence of (timestamp, dimension) keys; they are the
\* same sequence of rows when no two rows share a key.
C6_SameRowsUpToTies ==
    TwoTables =>
        LET a == outcome.rows
            b == previous.outcome.rows
        IN  /\ SameMultiset(a, b)
            /\ \A i \in DOMAIN a : SpecKey(a[i], call.dtype) = SpecKey(b[i], call.dtype)
            /\ (\A i, j \in DOMAIN a :
                   SpecKey(a[i], call.dtype) = SpecKey(a[j], call.dtype) => i = j)
                  => a = b

\* two tables of two files each, listed in opposite orders
C6_Witness ==
    /\ TwoTables
    /\ Len(listing) = 2
    /\ Len(Matching(call.dtype, listing)) = 2
    /\ previous.listing = <<listing[2], listing[1]>>
    /\ Len(outcome.rows) = 4

\* C7: a call with an unrecognised dtype or btype ends in a ValueError that
\* names the valid values, before any directory listing or file read.
C7_ConfigurationErrorBeforeIO ==
    (/\ cpc # "idle"
     /\ \/ call.dtype \notin {"fmm_as_awards", "fmm_bids", "fmm_offers",
                              "ifm_as_awards", "ifm_bids", "ifm_offers",
                              "energy_awards", "state_of_charge"}
        \/ call.btype \notin {"storage", "hybrid"})
        => /\ cpc = "done"
           /\ outcome.kind = "ValueError"
           /\ outcome.valid =
                 IF call.dtype \notin Range(DTypes)
                    THEN {"fmm_as_awards", "fmm_bids", "fmm_offers",
                          "ifm_as_awards", "ifm_bids", "ifm_offers",
                          "energy_awards", "state_of_charge"}
                    ELSE {"storage", "hybrid"}
           /\ io = <<>>
           /\ listing = <<>>

\* a call with a recognised dtype and an unrecognised btype, on a root that
\* holds files, ended in the error about the btype
C7_Witness ==
    /\ cpc = "done"
    /\ call.dtype = "state_of_charge"
    /\ call.btype = "solar"
    /\ outcome.kind = "ValueError"
    /\ outcome.about = "solar"
    /\ directory.storage # {}

(***************************************************************************)
(* esr/__init__.py: CAISOStorageReportScraper.extract_chart_data and the   *)
(* four extraction methods it calls.                                       *)
(***************************************************************************)
MaxFailures == 1    \* evaluations that raise on one page

\* __init__.py:156-165
JsPatterns ==
    <<"window.chartData", "window.data", "chartData", "plotData",
      "seriesData", "dataPoints", "energyData", "storageData">>

\* what the strategies find on a page:
\*   js         the positions in JsPatterns of the variables with a truthy value
\*   tags       per script tag, the JSON matches that parse to a non-empty dict
\*   highcharts the entries of Highcharts.charts
\*   plotly     the list the Plotly script returns
\*   tables     per table element, whether its DataFrame is empty
\*   links      per anchor, "file" (href with a data extension), "button"
\*              (download wording in its text) or "other"
\* a JavaScript value that is a string, and undefined
JsString(text) == [defined |-> TRUE, text |-> text]
Undefined == [defined |-> FALSE, text |-> ""]

\* chart.title: absent, or the title element with its textStr
NoTitleObject == [object |-> FALSE, textStr |-> Undefined]
TitleObject(textStr) == [object |-> TRUE, textStr |-> textStr]

\* an entry of Highcharts.charts: live is (chart && chart.series)
ScraperChart(live, title) == [live |-> live, title |-> title, series |-> <<>>]

\* __init__.py:214-236: highcharts_script; index is the position in
\* Highcharts.charts, counted from 0, and an undefined textStr reaches Python
\* as None
RECURSIVE HighchartsScript(_, _)
HighchartsScript(charts, k) ==
    IF k > Len(charts) THEN <<>>
    ELSE (IF charts[k].live
             THEN <<[title |-> IF charts[k].title.object
                                  THEN charts[k].title.textStr
                                  ELSE JsString("Chart " \o ToString(k - 1)),
                     series |-> charts[k].series]>>
             ELSE <<>>)
         \o HighchartsScript(charts, k + 1)

Site(js, tags, highcharts, plotly, tables, links) ==
    [js |-> js, tags |-> tags, highcharts |-> highcharts, plotly |-> plotly,
     tables |-> tables, links |-> links]

Sites ==
    {Site(js, tags, hc, pl, tb, ln) :
        js \in {{}, {1, 4}},
        tags \in {<<>>, <<2>>},
        hc \in {<<>>,
                <<ScraperChart(TRUE, TitleObject(JsString("Total State of Charge")))>>,
                <<ScraperChart(FALSE, NoTitleObject),
                  ScraperChart(TRUE, NoTitleObject)>>,
                <<ScraperChart(TRUE, TitleObject(Undefined)),
                  ScraperChart(TRUE, TitleObject(JsString("SOC")))>>},
        pl \in {<<>>, <<"Plot 0">>},
        tb \in {<<>>, <<"full">>, <<"empty", "full">>},
        ln \in {<<>>, <<"file">>, <<"other", "button">>}}

\* the evaluations that can raise: <<strategy, k>>, k = 0 for the script or
\* the find_elements call, k > 0 for the k-th element of the loop
FailurePoints(s) ==
    {<<"js", k>> : k \in DOMAIN JsPatterns}
    \cup {<<"tags", 0>>, <<"highcharts", 0>>, <<"plotly", 0>>, <<"tables", 0>>,
          <<"links", 0>>}
    \cup {<<"tables", k>> : k \in DOMAIN s.tables}
    \cup {<<"links", k>> : k \in DOMAIN s.links}

\* the exception an evaluation raises
ExceptionAt(point) ==
    IF point[1] \in {"js", "highcharts", "plotly"} THEN "JavascriptException"
    ELSE IF point[2] = 0 THEN "WebDriverException"
    ELSE "StaleElementReferenceException"

\* a handler for TimeoutException only, as in load_report_page
CatchesTimeoutOnly(exception) == exception = "TimeoutException"
\* __init__.py:179, 199, 241, 265, 295, 298, 336: except Exception
Catches(exception) == TRUE

\* the evaluation at a point raises and no handler around it catches
Escapes(point) == point \in failing /\ ~Catches(ExceptionAt(point))

\* the value found in a JavaScript variable
JsValue(k) == [variable |-> JsPatterns[k]]

\* __init__.py:195: the key of the j-th JSON match of the i-th script tag
ScriptKey(i, j) == "script_" \o ToString(i) \o "_json_" \o ToString(j)

\* __init__.py:185-198: the entries the script tags add, counted from 0
ScriptEntries(tags) ==
    LET keys == UNION {{ScriptKey(i - 1, j - 1) : j \in 1..tags[i]} :
                          i \in DOMAIN tags}
    IN  [k \in keys |-> "dict"]

\* dict.update
Merge(d, e) ==
    [k \in DOMAIN d \cup DOMAIN e |-> IF k \in DOMAIN e THEN e[k] ELSE d[k]]

\* __init__.py:280-296: the records of the tables from the k-th on; a table
\* whose conversion raises is skipped by the inner handler
RECURSIVE TableRecords(_, _)
TableRecords(tables, k) ==
    IF k > Len(tables) THEN <<>>
    ELSE (IF <<"tables", k>> \notin failing /\ tables[k] # "empty"
             THEN <<[table_index |-> k - 1, data |-> tables[k]]>>
             ELSE <<>>)
         \o TableRecords(tables, k + 1)

\* __init__.py:315-334: the entries of the links from the k-th on, up to the
\* first link whose attribute read raises (the loop stands in one try)
RECURSIVE LinkRecords(_, _)
LinkRecords(links, k) ==
    IF k > Len(links) \/ <<"links", k>> \in failing THEN <<>>
    ELSE (IF links[k] = "file"
             THEN <<[type |-> "file_link", link |-> k]>>
          ELSE IF links[k] = "button"
             THEN <<[type |-> "download_button", link |-> k]>>
          ELSE <<>>)
         \o LinkRecords(links, k + 1)

\* the first link of the loop whose attribute read raises, 0 if none
FirstFailingLink(links) ==
    LET bad == {k \in DOMAIN links : <<"links", k>> \in failing}
    IN  IF bad = {} THEN 0 ELSE CHOOSE k \in bad : \A j \in bad : k <= j

\* what loading the report can meet: Chrome does not start (setup_driver
\* re-raises), driver.get raises, or the page loads
Environments == {"loads", "no_chrome", "get_raises"}

\* a scraper that never quits its driver
CloseNever(d) == d
\* __init__.py:389-395: close
Close(d) == IF d # "none" THEN "quit" ELSE d

\* __init__.py:404, 30-39: CAISOStorageReportScraper(): self.driver = None
ScraperInit ==
    /\ spc = [at |-> "created", k |-> 0]
    /\ env \in Environments
    /\ self_driver = "none"
    /\ site \in Sites
    /\ failing \in Subsets(FailurePoints(site), MaxFailures)
    /\ extracted_js = <<>>
    /\ chart_data = <<>>
    /\ data_sources = <<>>
    /\ caught = {}

\* __init__.py:407-408, 73-119: load_report_page: setup_driver, driver.get
\* and the waits for a chart element, whose timeouts are caught
LoadReportPage ==
    /\ spc.at = "created"
    /\ self_driver' = IF env = "no_chrome" THEN self_driver ELSE "open"
    /\ spc' = IF env = "loads" THEN [at |-> "js", k |-> 1]
                              ELSE [at |-> "failed", k |-> 0]
    /\ UNCHANGED <<site, failing, extracted_js, chart_data, data_sources,
                   caught, env>>
    /\ UNCHANGED <<simpleVars, collateVars, formatVars>>

\* __init__.py:169-180: one turn of the loop over js_patterns
ProbeJs ==
    /\ spc.at = "js"
    /\ LET point == <<"js", spc.k>>
       IN  IF Escapes(point)
              THEN /\ spc' = [at |-> "raised", k |-> 0]
                   /\ UNCHANGED <<extracted_js, caught>>
              ELSE /\ spc' = IF spc.k < Len(JsPatterns)
                                THEN [at |-> "js", k |-> spc.k + 1]
                                ELSE [at |-> "tags", k |-> 0]
                   /\ IF point \in failing
                         THEN /\ caught' = caught \cup {point}
                              /\ UNCHANGED extracted_js
                         ELSE /\ extracted_js' =
                                    IF spc.k \in site.js
                                       THEN DictSet(extracted_js, JsPatterns[spc.k],
                                                    JsValue(spc.k))
                                       ELSE extracted_js
                              /\ UNCHANGED caught
    /\ UNCHANGED <<site, failing, chart_data, data_sources>>
    /\ UNCHANGED <<env, self_driver>>
    /\ UNCHANGED <<simpleVars, collateVars, formatVars>>

\* __init__.py:183-202, 128-130: the search of the script tags, the return
\* of extract_js_data and data_sources['javascript']
SearchScriptTags ==
    /\ spc.at = "tags"
    /\ LET point == <<"tags", 0>>
       IN  IF Escapes(point)
              THEN /\ spc' = [at |-> "raised", k |-> 0]
                   /\ UNCHANGED <<extracted_js, data_sources, caught>>
              ELSE LET js_data == IF point \in failing
                                     THEN extracted_js
                                     ELSE Merge(extracted_js, ScriptEntries(site.tags))
                   IN  /\ extracted_js' = js_data
                       /\ caught' = caught \cup ({point} \cap failing)
                       /\ data_sources' =
                             IF DOMAIN js_data # {}
                                THEN DictSet(data_sources, "javascript", js_data)
                                ELSE data_sources
                       /\ spc' = [at |-> "highcharts", k |-> 0]
    /\ UNCHANGED <<site, failing, chart_data>>
    /\ UNCHANGED <<env, self_driver>>
    /\ UNCHANGED <<simpleVars, collateVars, formatVars>>

\* __init__.py:213-242: the Highcharts script
ExtractHighcharts ==
    /\ spc.at = "highcharts"
    /\ LET point == <<"highcharts", 0>>
       IN  IF Escapes(point)
              THEN /\ spc' = [at |-> "raised", k |-> 0]
                   /\ UNCHANGED <<chart_data, caught>>
              ELSE /\ spc' = [at |-> "plotly", k |-> 0]
                   /\ caught' = caught \cup ({point} \cap failing)
                   /\ chart_data' =
                         LET result == HighchartsScript(site.highcharts, 1)
                         IN  IF point \notin failing /\ result # <<>>
                                THEN DictSet(chart_data, "highcharts", result)
                                ELSE chart_data
    /\ UNCHANGED <<site, failing, extracted_js, data_sources>>
    /\ UNCHANGED <<env, self_driver>>
    /\ UNCHANGED <<simpleVars, collateVars, formatVars>>

\* __init__.py:244-268, 133-135: the Plotly script, the return of
\* extract_chart_library_data and data_sources['charts']
ExtractPlotly ==
    /\ spc.at = "plotly"
    /\ LET point == <<"plotly", 0>>
       IN  IF Escapes(point)
              THEN /\ spc' = [at |-> "raised", k |-> 0]
                   /\ UNCHANGED <<chart_data, data_sources, caught>>
              ELSE LET result == IF point \notin failing /\ site.plotly # <<>>
                                    THEN DictSet(chart_data, "plotly", site.plotly)
                                    ELSE chart_data
                   IN  /\ chart_data' = result
                       /\ caught' = caught \cup ({point} \cap failing)
                       /\ data_sources' =
                             IF DOMAIN result # {}
                                THEN DictSet(data_sources, "charts", result)
                                ELSE data_sources
                       /\ spc' = [at |-> "tables", k |-> 0]
    /\ UNCHANGED <<site, failing, extracted_js>>
    /\ UNCHANGED <<env, self_driver>>
    /\ UNCHANGED <<simpleVars, collateVars, formatVars>>

\* __init__.py:270-301, 138-140: extract_table_data and data_sources['tables']
ExtractTables ==
    /\ spc.at = "tables"
    /\ LET points == {p \in failing : p[1] = "tables"}
       IN  IF \E p \in points : Escapes(p)
              THEN /\ spc' = [at |-> "raised", k |-> 0]
                   /\ UNCHANGED <<data_sources, caught>>
              ELSE LET table_data == IF <<"tables", 0>> \in failing
                                        THEN <<>>
                                        ELSE TableRecords(site.tables, 1)
                   IN  /\ caught' = caught \cup
                                    (IF <<"tables", 0>> \in failing
                                        THEN {<<"tables", 0>>} ELSE points)
                       /\ data_sources' =
                             IF table_data # <<>>
                                THEN DictSet(data_sources, "tables", table_data)
                                ELSE data_sources
                       /\ spc' = [at |-> "links", k |-> 0]
    /\ UNCHANGED <<site, failing, extracted_js, chart_data>>
    /\ UNCHANGED <<env, self_driver>>
    /\ UNCHANGED <<simpleVars, collateVars, formatVars>>

\* __init__.py:303-339, 143-147: find_download_links,
\* data_sources['downloads'] and return data_sources
FindDownloadLinks ==
    /\ spc.at = "links"
    /\ LET first == FirstFailingLink(site.links)
           reached == IF <<"links", 0>> \in failing THEN {<<"links", 0>>}
                      ELSE IF first > 0 THEN {<<"links", first>>}
                      ELSE {}
       IN  IF \E p \in reached : Escapes(p)
              THEN /\ spc' = [at |-> "raised", k |-> 0]
                   /\ UNCHANGED <<data_sources, caught>>
              ELSE LET download_links == IF <<"links", 0>> \in failing
                                            THEN <<>>
                                            ELSE LinkRecords(site.links, 1)
                   IN  /\ caught' = caught \cup reached
                       /\ data_sources' =
                             IF download_links # <<>>
                                THEN DictSet(data_sources, "downloads", download_links)
                                ELSE data_sources
                       /\ spc' = [at |-> "returned", k |-> 0]
    /\ UNCHANGED <<site, failing, extracted_js, chart_data>>
    /\ UNCHANGED <<env, self_driver>>
    /\ UNCHANGED <<simpleVars, collateVars, formatVars>>

\* __init__.py:413-434: the downloads, save_data and the summary, then
\* finally: scraper.close(), also when an exception is on its way out
CloseScraper ==
    /\ spc.at \in {"returned", "raised", "failed"}
    /\ self_driver' = Close(self_driver)
    /\ spc' = [at |-> "closed", k |-> IF spc.at = "returned" THEN 0 ELSE 1]
    /\ UNCHANGED <<site, failing, extracted_js, chart_data, data_sources,
                   caught, env>>
    /\ UNCHANGED <<simpleVars, collateVars, formatVars>>

InitScraper == ScraperInit /\ SimpleOff /\ CollateOff /\ FormatOff
NextScraper ==
    \/ LoadReportPage
    \/ ProbeJs
    \/ SearchScriptTags
    \/ ExtractHighcharts
    \/ ExtractPlotly
    \/ ExtractTables
    \/ FindDownloadLinks
    \/ CloseScraper
SpecScraper == InitScraper /\ [][NextScraper]_vars

(***************************************************************************)
(* Claims about extract_chart_data                                         *)
(***************************************************************************)
Strategies ==
    {<<"js", k>> : k \in DOMAIN JsPatterns}
    \cup {<<"tags", 0>>, <<"highcharts", 0>>, <<"plotly", 0>>, <<"tables", 0>>,
          <<"links", 0>>}

\* no evaluation of the strategy raises
Succeeded(strategy) ==
    \A p \in failing :
        ~(p[1] = strategy[1] /\ (strategy[1] = "js" => p[2] = strategy[2]))

Entry(d, key) == IF key \in DOMAIN d THEN <<d[key]>> ELSE <<>>

Field(d, key) == IF key \in DOMAIN d THEN d[key] ELSE <<>>

\* what a returned collection holds for one strategy
Portion(ds, strategy) ==
    LET javascript == Field(ds, "javascript")
        charts == Field(ds, "charts")
    IN  CASE strategy[1] = "js" -> Entry(javascript, JsPatterns[strategy[2]])
          [] strategy[1] = "tags" ->
                [k \in DOMAIN javascript \ Range(JsPatterns) |-> javascript[k]]
          [] strategy[1] = "highcharts" -> Field(charts, "highcharts")
          [] strategy[1] = "plotly" -> Field(charts, "plotly")
          [] strategy[1] = "tables" -> Field(ds, "tables")
          [] OTHER -> Field(ds, "downloads")

RECURSIVE SpecTables(_, _)
SpecTables(tables, k) ==
    IF k > Len(tables) THEN <<>>
    ELSE (IF tables[k] = "full"
             THEN <<[table_index |-> k - 1, data |-> "full"]>> ELSE <<>>)
         \o SpecTables(tables, k + 1)

RECURSIVE SpecLinks(_, _)
SpecLinks(links, k) ==
    IF k > Len(links) THEN <<>>
    ELSE (CASE links[k] = "file" -> <<[type |-> "file_link", link |-> k]>>
            [] links[k] = "button" -> <<[type |-> "download_button", link |-> k]>>
            [] OTHER -> <<>>)
         \o SpecLinks(links, k + 1)

\* what the strategy yields on the page when nothing raises
SpecPortion(s, strategy) ==
    CASE strategy[1] = "js" ->
            IF strategy[2] \in s.js
               THEN <<[variable |-> JsPatterns[strategy[2]]]>> ELSE <<>>
      [] strategy[1] = "tags" ->
            [k \in UNION {{"script_" \o ToString(i - 1) \o "_json_" \o ToString(j - 1) :
                                j \in 1..s.tags[i]} : i \in DOMAIN s.tags}
                |-> "dict"]
      [] strategy[1] = "highcharts" -> HighchartsScript(s.highcharts, 1)
      [] strategy[1] = "plotly" -> s.plotly
      [] strategy[1] = "tables" -> SpecTables(s.tables, 1)
      [] OTHER -> SpecLinks(s.links, 1)

\* C8: an evaluation that raises in one extraction strategy is caught: the
\* exception never leaves extract_chart_data, every later strategy is still
\* run until the method returns, and in the returned collection every strategy
\* of which no evaluation raised holds exactly what it yields on that page
\* when nothing raises.
C8_FailureIsolated ==
    /\ spc.at # "raised"
    /\ spc.at \in {"js", "tags", "highcharts", "plotly", "tables", "links"}
          => ENABLED NextScraper
    /\ spc.at = "returned" =>
          /\ \A p \in failing : p[2] = 0 \/ p[1] = "js" => p \in caught
          /\ caught \subseteq failing
          /\ \A strategy \in Strategies :
                Succeeded(strategy) =>
                   Portion(data_sources, strategy) = SpecPortion(site, strategy)

\* the Highcharts script raised, and the returned collection holds the
\* JavaScript variables read before it and the Plotly, table and link results
\* obtained after it
C8_Witness ==
    /\ spc.at = "returned"
    /\ failing = {<<"highcharts", 0>>}
    /\ caught = failing
    /\ DOMAIN data_sources = {"javascript", "charts", "tables", "downloads"}
    /\ DOMAIN data_sources.charts = {"plotly"}
    /\ site.highcharts # <<>>

(***************************************************************************)
(* Claims about the order of the rows of a chart's table (simple.py)       *)
(***************************************************************************)
\* the charts of the extraction whose table is stored under the title
ChartsTitled(t) ==
    {c \in DOMAIN extracted.charts :
        extracted.charts[c].title = t /\ AllData(extracted.charts[c]) # <<>>}

\* how often a row occurs in a sequence of rows
Occurrences(rows, r) == Cardinality({i \in DOMAIN rows : rows[i] = r})

SameRows(a, b) ==
    /\ Len(a) = Len(b)
    /\ \A i \in DOMAIN a : Occurrences(a, a[i]) = Occurrences(b, a[i])

HasTimestamp(rows) == \E i \in DOMAIN rows : "datetime" \in DOMAIN rows[i]

\* ascending by timestamp, the rows without one last
AscendingByTimestamp(rows) ==
    \A i, j \in DOMAIN rows :
        i < j /\ "datetime" \in DOMAIN rows[j] =>
            /\ "datetime" \in DOMAIN rows[i]
            /\ ~BigGreater(rows[i].datetime.ts, rows[j].datetime.ts)

\* C11 as stated: the rows of every output table are the rows of its chart in
\* series order and, within a series, in point order, whether or not the rows
\* carry a timestamp.
C11_SeriesThenPointOrder ==
    pc = "converted" =>
        \A t \in DOMAIN dataframes :
            \E c \in ChartsTitled(t) :
                dataframes[t].rows = AllData(extracted.charts[c])

\* C11 amended: every output table holds exactly the rows of its chart; they
\* stand in series order then point order when no row carries a timestamp,
\* and in ascending timestamp order, rows without a timestamp last, when some
\* row carries one.
C11_OrderKeptUnlessTimestamped ==
    pc = "converted" =>
        \A t \in DOMAIN dataframes :
            \E c \in ChartsTitled(t) :
                LET all_data == AllData(extracted.charts[c])
                    rows == dataframes[t].rows
                IN  /\ SameRows(rows, all_data)
                    /\ ~HasTimestamp(all_data) => rows = all_data
                    /\ HasTimestamp(all_data) => AscendingByTimestamp(rows)

\* a table whose chart gives a later timestamp before an earlier one in the
\* same series: the table holds the two rows in timestamp order
C11_Witness ==
    /\ pc = "converted"
    /\ \E t \in DOMAIN dataframes :
          \E c \in ChartsTitled(t) :
             LET all_data == AllData(extracted.charts[c])
             IN  /\ Len(all_data) >= 2
                 /\ "datetime" \in DOMAIN all_data[1]
                 /\ "datetime" \in DOMAIN all_data[2]
                 /\ all_data[1].series_name = all_data[2].series_name
                 /\ BigGreater(all_data[1].datetime.ts, all_data[2].datetime.ts)
                 /\ dataframes[t].rows # all_data
                 /\ AscendingByTimestamp(dataframes[t].rows)

(***************************************************************************)
(* esr/collate.py: the expression every formatter applies to one value of  *)
(* the series_name column, step by step.                                   *)
(***************************************************************************)
MaxGap == 2    \* characters between the two words of a series name

\* the characters that separate the words of a series name in a csv file
GapChars == {" ", "\t", "_"}

Gaps == UNION {[1..n -> GapChars] : n \in 1..MaxGap}

\* series names of two words
WordPairs == {
    <<<<"S", "e", "l", "f">>, <<"S", "c", "h", "e", "d", "u", "l", "e">>>>,
    <<<<"N", "o", "n">>, <<"S", "p", "i", "n">>>>,
    <<<<"R", "E", "G">>, <<"d", "o", "w", "n">>>>,
    <<<<"r", "e", "g">>, <<"u", "p">>>>
}

\* series names without a separator to vary: markets, a service, price
\* ranges (two of them enumeration literals with a blank), a leading blank, a
\* name of no enumeration
PlainNames == {
    <<"I", "F", "M">>,
    <<"r", "t", "d">>,
    <<"F", "m", "m">>,
    <<"S", "p", "i", "n">>,
    <<" ", "i", "f", "m">>,
    <<"[", "-", "$", "1", "5", "0", ",", "-", "$", "1", "0", "0", "]">>,
    <<"(", "-", "$", "1", "5", ",", " ", "$", "0", "]">>,
    <<"D", "a", "y", " ", "A", "h", "e", "a", "d">>
}

Names == {p[1] \o g \o p[2] : p \in WordPairs, g \in Gaps} \cup PlainNames

\* collate.py:85-93: scan_csv has read one series_name value
FormatInit ==
    /\ fpc = "scanned"
    /\ fdtype \in Range(DTypes)
    /\ raw \in Names
    /\ column = raw
    /\ casted = <<>>

\* collate.py:96, 129, 153, 177, 201: .str.to_lowercase()
StrToLowercase ==
    /\ fpc = "scanned"
    /\ column' = ToLowercase(column)
    /\ fpc' = "lowercased"
    /\ UNCHANGED <<fdtype, raw, casted>>
    /\ UNCHANGED <<simpleVars, collateVars, scraperVars>>

\* collate.py:97, 130: .str.replace(r"\s", "_");
\* collate.py:154, 178, 202: .replace({"self schedule": "self_schedule"})
ReplaceStep ==
    /\ fpc = "lowercased"
    /\ column' = IF Formatter(fdtype) \in {"energy_awards", "ifm_as_awards"}
                    THEN StrReplace(column)
                    ELSE Replace(column)
    /\ fpc' = "normalised"
    /\ UNCHANGED <<fdtype, raw, casted>>
    /\ UNCHANGED <<simpleVars, collateVars, scraperVars>>

\* collate.py:98, 131, 155, 179, 203: .cast(<ENUM>)
CastEnum ==
    /\ fpc = "normalised"
    /\ casted' = Cast(EnumOf(Formatter(fdtype)), column)
    /\ fpc' = "cast"
    /\ UNCHANGED <<fdtype, raw, column>>
    /\ UNCHANGED <<simpleVars, collateVars, scraperVars>>

InitFormat == FormatInit /\ SimpleOff /\ CollateOff /\ ScraperOff
NextFormat ==
    \/ StrToLowercase
    \/ ReplaceStep
    \/ CastEnum
SpecFormat == InitFormat /\ [][NextFormat]_vars

(***************************************************************************)
(* Claims about the normalisation of series names                          *)
(***************************************************************************)
\* lower-casing, then every whitespace character replaced by an underscore
SpecNormalise(name) ==
    LET lower == ToLowercase(name)
    IN  [i \in DOMAIN lower |-> IF lower[i] \in Whitespace THEN "_" ELSE lower[i]]

WhitespaceOf(name) == {i \in DOMAIN name : name[i] \in Whitespace}

\* C12 as stated: under every metric kind, a series name that equals a
\* literal of the metric's enumeration after lower-casing and replacing every
\* whitespace character by an underscore is cast successfully.
C12_SameShapeEveryMetric ==
    fpc = "cast" /\ InEnum(EnumOf(Formatter(fdtype)), SpecNormalise(raw))
        => casted.ok

\* C12 amended: a series name that equals a literal of the metric's
\* enumeration after lower-casing and replacing all whitespace by underscores
\* is cast successfully, to that literal, under energy awards, state of
\* charge and the AS awards; under bids and offers it is when its only
\* whitespace, if any, is one blank.
C12_LiteralNamesParse ==
    fpc = "cast" /\ InEnum(EnumOf(Formatter(fdtype)), SpecNormalise(raw))
        /\ (Formatter(fdtype) \in {"ifm_bids", "ifm_offers"}
               => \A i \in WhitespaceOf(raw) :
                     raw[i] = " " /\ WhitespaceOf(raw) = {i})
        => casted.ok /\ casted.value = SpecNormalise(raw)

\* 'Self Schedule' in an FMM bids file is cast to self_schedule
C12_Witness ==
    /\ fpc = "cast"
    /\ fdtype = "fmm_bids"
    /\ raw = <<"S", "e", "l", "f", " ", "S", "c", "h", "e", "d", "u", "l", "e">>
    /\ casted.ok
    /\ casted.value = <<"s", "e", "l", "f", "_", "s", "c", "h", "e", "d", "u", "l", "e">>

\* C13: applying a metric's normalisation to an already normalised series
\* name gives the same string, and every literal of the metric's enumeration
\* is mapped to itself.
C13_NormaliseIdempotent ==
    fpc \in {"normalised", "cast"} =>
        /\ Normalise(Formatter(fdtype), column) = column
        /\ \A i \in DOMAIN EnumOf(Formatter(fdtype)) :
              LET literal == EnumOf(Formatter(fdtype))[i]
              IN  Normalise(Formatter(fdtype), literal) = literal

(***************************************************************************)
(* Further properties of esr/collate.py, checked under SpecCollate.        *)
(***************************************************************************)
\* the row a csv row becomes in the metric's table
SpecRow(csvRow, dtype) ==
    LET dimension == IF dtype \in {"energy_awards", "state_of_charge"}
                        THEN "market" ELSE "service"
    IN  [k \in {"timestamp", dimension, "volume"} |->
            CASE k = "timestamp" -> csvRow.datetime
              [] k = "volume"    -> csvRow.value
              [] OTHER -> Normalise(Formatter(dtype), csvRow.series_name)]

\* C14: the collated dataset holds the rows of all parsed files, each as often
\* as the files hold it: its row count is the sum of the files' row counts
\* and a row that two files hold appears twice.
C14_NoDeduplication ==
    cpc = "done" /\ outcome.kind = "table" =>
        LET expected == [i \in DOMAIN ParsedCsvRows |->
                            SpecRow(ParsedCsvRows[i], call.dtype)]
        IN  /\ Len(outcome.rows) = Len(ParsedCsvRows)
            /\ \A i \in DOMAIN expected :
                  Cardinality({j \in DOMAIN outcome.rows : outcome.rows[j] = expected[i]})
                    = Cardinality({j \in DOMAIN expected : expected[j] = expected[i]})

\* a day's file and a kept copy of it are both collated: every row appears
\* twice
C14_Witness ==
    /\ cpc = "done"
    /\ outcome.kind = "table"
    /\ Len(Matching(call.dtype, listing)) = 2
    /\ Len(outcome.rows) = 4
    /\ \A i \in DOMAIN outcome.rows :
          \E j \in DOMAIN outcome.rows : j # i /\ outcome.rows[j] = outcome.rows[i]

\* a name made of eight digits and exactly the metric's suffix
SpecExactName(dtype, name) ==
    LET suffix == PatternStem(dtype) \o <<".", "c", "s", "v">>
    IN  /\ Len(name) = 8 + Len(suffix)
        /\ \A i \in 1..8 : name[i] \in Digits
        /\ \A i \in DOMAIN suffix : name[8 + i] = suffix[i]

\* C15: collate parses a file under the selected root exactly when its name is
\* an 8-digit date followed by exactly the metric's suffix: no name with
\* characters after the suffix, with another character for the '.', or of
\* another metric kind is parsed.
C15_ExactNameSelection ==
    LET exact == {f.name : f \in {g \in Root(call.btype) :
                                    SpecExactName(call.dtype, g.name)}}
    IN  /\ cpc = "lazy" => Range(outcome.files) = exact
        /\ cpc = "done" /\ outcome.kind = "ValueError" /\ outcome.about = "concat"
              => exact = {}

\* C18: a collate call with a valid dtype and btype on a root none of whose
\* file names matches the metric's pattern lists the directory and then ends
\* in the error of concatenating no frames; it never gives a table.
C18_NoMatchRaises ==
    /\ cpc \in {"lazy", "done"}
    /\ call.dtype \in Range(DTypes)
    /\ call.btype \in {"storage", "hybrid"}
    /\ \A f \in Root(call.btype) : ~PatternMatch(call.dtype, f.name)
    => /\ cpc = "done"
       /\ outcome = [kind |-> "ValueError", about |-> "concat", valid |-> {}]
       /\ io = <<"iterdir">>

\* the root holds files, none of the metric asked for
C18_Witness ==
    /\ cpc = "done"
    /\ call.dtype \in Range(DTypes)
    /\ call.btype = "storage"
    /\ Root(call.btype) # {}
    /\ \A f \in Root(call.btype) : ~PatternMatch(call.dtype, f.name)
    /\ outcome.kind = "ValueError"
    /\ outcome.about = "concat"

(***************************************************************************)
(* The browser sessions of both extractors: a run of the date loop of      *)
(* simple.py, or a call of scrape_caiso_storage_report.                    *)
(***************************************************************************)
InitSessions ==
    /\ \/ SimpleInit /\ ScraperOff
       \/ SimpleOff /\ ScraperInit
    /\ CollateOff
    /\ FormatOff
NextSessions ==
    \/ StartDay
    \/ LoadPage
    \/ ExecuteScript
    \/ Convert
    \/ WriteFiles
    \/ NextDate
    \/ LoadReportPage
    \/ ProbeJs
    \/ SearchScriptTags
    \/ ExtractHighcharts
    \/ ExtractPlotly
    \/ ExtractTables
    \/ FindDownloadLinks
    \/ CloseScraper
SpecSessions == InitSessions /\ [][NextSessions]_vars

\* C16: the session opened for a page is released when the extraction call
\* has returned or raised, on a page-load failure, a timeout and a script
\* error alike, so no session is open when the next page is loaded or after
\* the run, and a session is only ever opened while none is open.
C16_SessionReleased ==
    /\ pc \in {"idle", "extracted", "converted", "written", "finished", "aborted"}
          => driver # "open"
    /\ pc \in {"loading", "loaded"} => driver = "open"
    /\ spc.at = "closed" => self_driver # "open"
    /\ ~(driver = "open" /\ self_driver = "open")

\* the second day of the range ends in the timeout of the wait for a chart
\* element, with its session released
C16_Witness ==
    /\ day = 2
    /\ pc = "aborted"
    /\ exc = "TimeoutException"
    /\ driver = "quit"

(***************************************************************************)
(* Claims about the titles of the chart records of both extractors         *)
(***************************************************************************)
\* the texts of the page's title candidates: trimmed length in (3, 100)
SpecCandidateTexts ==
    {page.elements[i].textContent.body : i \in
        {j \in DOMAIN page.elements :
            /\ Len(page.elements[j].textContent.body) > 3
            /\ Len(page.elements[j].textContent.body) < 100}}

\* the chart records the scraper's Highcharts strategy returned
ScraperCharts ==
    IF "highcharts" \in DOMAIN chart_data THEN chart_data.highcharts ELSE <<>>

\* C17: every chart record an extraction returns has a title that is a
\* string, not null: the text of a title candidate, of trimmed length above 3
\* and below 100, or the label 'Chart <index>'; for the simple extractor and
\* for the scraper's Highcharts strategy.
C17_TitleIsCandidateOrLabel ==
    /\ pc \in {"extracted", "converted", "written"} =>
          \A c \in DOMAIN extracted.charts :
             \/ extracted.charts[c].title \in SpecCandidateTexts
             \/ extracted.charts[c].title
                  = "Chart " \o ToString(extracted.charts[c].chartIndex)
    /\ \A c \in DOMAIN ScraperCharts :
          /\ ScraperCharts[c].title.defined
          /\ \/ /\ Len(ScraperCharts[c].title.text) > 3
                /\ Len(ScraperCharts[c].title.text) < 100
             \/ \E k \in 0..Len(site.highcharts) :
                   ScraperCharts[c].title.text = "Chart " \o ToString(k)

====
